---- MODULE Spec2Model ----
(***************************************************************************)
(* Model of the E2B sandbox lifecycle manager of AutoCTF                   *)
(* (src/sandbox_manager.py): SandboxManager.get_or_create_sandbox,         *)
(* create_sandbox, install_security_tools, run_command and close_sandbox,  *)
(* run by asyncio tasks that interleave at the awaits of remote calls;      *)
(* and of the exec client (src/mcp/exec_client.py) with the reconnaissance *)
(* that runs its commands through it (src/agent/recon.py); of the analysis *)
(* phase, GitHubClient.create_pr, the dashboard backend's runs and event   *)
(* streams, and BrowserbaseClient.create_session.                          *)
(***************************************************************************)
EXTENDS Integers, Naturals, Sequences, FiniteSets, TLC

(* ------------------------------ bounds --------------------------------- *)
\* remote sandboxes the E2B account can hand out; creation fails beyond it (quota)
MaxSandboxes == 2
\* last instant of the clock (time.time())
MaxTime == 3
\* self.max_sandbox_age (3600 s in the source), scaled to clock ticks
max_sandbox_age == 1
\* self.max_commands (100 in the source), scaled
max_commands == 2

\* the asyncio tasks that call run_command
Tasks == {1, 2}
\* Python None for self.sandbox / the local variable sandbox / self.created_at
None == 0
\* commands a caller passes to run_command
Commands == {"nmap", "curl"}
\* exit codes the remote command can return
ExitCodes == {0, 1, 127}
Stdouts == {"", "out"}
Stderrs == {"err"}
\* exceptions an awaited remote call can raise
Raises == {"TimeoutError", "TransportError"}

(* ------------------------------- state --------------------------------- *)
VARIABLES
    sandbox,        \* self.sandbox: None or the handle of the current sandbox
    created_at,     \* self.created_at: None or the creation time
    command_count,  \* self.command_count
    now,            \* time.time()
    nCreated,       \* sandboxes AsyncSandbox.create has created so far (handles 1..nCreated)
    sent,           \* run_command calls whose command was dispatched to the current sandbox
    lastLease,      \* the handle get_or_create_sandbox returned last (None: none yet)
    pc,             \* pc[t]: the await at which task t's run_command call is suspended
    cmd,            \* cmd[t]: the command of the call
    sb,             \* sb[t]: run_command's local variable sandbox
    chk,            \* chk[t]: what the lease check of the call saw
    log,            \* log[t]: the dispatches of the call, <<handle, command>> each
    got,            \* got[t]: what the remote gave for each dispatch of the call
    incs,           \* incs[t]: executions of "self.command_count += 1" in the call
    repairs,        \* repairs[t]: install_security_tools calls made by run_command itself
    exc,            \* exc[t]: the exception that left run_command's try block ("": none)
    res,            \* res[t]: what the call gave its caller
    _sandbox,       \* exec_client._sandbox: None or the handle of the global sandbox
    rpc,            \* the await at which run_recon is suspended
    http_code,      \* run_recon's http_code: what the probe's exec_command gave
    ex,             \* ex[i]: the exec_command coroutine of slot i
    order,          \* the slots of the batch in the order their coroutines ended
    dispatched,     \* the commands this run_recon call has sent to a sandbox
    report,         \* recon_output / what run_recon returns
    api_key,        \* os.getenv('E2B_API_KEY')
    _manager,       \* sandbox_manager._manager: None or the SandboxManager built
    requests,       \* who has called AsyncSandbox.create so far
    vulns_json,     \* what detect_vulns returned: the model's text, token by token
    apc,            \* the caller of detect_vulns that is at work, "idle", "done"
    outcome,        \* how the analysis phase of that caller ended
    refs,           \* GitHub: the branches of the repository besides the base
    tree,           \* GitHub: tree[b][p], the content of path p on branch b
    pulls,          \* GitHub: the branches with an open pull request
    last,           \* the last create_pr call and what it gave
    torn,           \* the handles whose remote teardown has been requested
    runs,           \* the table pentest_runs: runs[r] is the status of run r
    nRuns,          \* the ids the table has given out (1..nRuns)
    scan,           \* the run whose start_scan awaits the answer of Trigger.dev
    sse_subscribers,\* sse_subscribers[r]: the updates queued for run r
    streams,        \* streams[s]: the event_generator of connection s
    yielded,        \* the updates some event_generator has yielded
    nUpd,           \* the updates broadcast_progress has built (1..nUpd)
    tools,          \* the tools present in the sandbox install_security_tools works on
    ipc,            \* the await at which install_security_tools is suspended
    issued,         \* the commands this install_security_tools call has run
    tools_before,   \* the tools that were present when the call started
    missing_critical, \* install_security_tools' list missing_critical
    install_result, \* what install_security_tools gave its caller
    enabled,        \* BrowserbaseClient.enabled
    _active_session,        \* browserbase_client._active_session
    _session_creation_time, \* browserbase_client._session_creation_time
    bpc,            \* where create_session stands
    attempt,        \* create_session's loop variable attempt
    made,           \* the sessions.create calls this create_session call has made
    errors,         \* the exceptions of those calls, in order
    session,        \* what create_session returned
    nSessions       \* the sessions Browserbase has created (1..nSessions)

\* the state of exec_client and run_recon
reconVars == <<_sandbox, rpc, http_code, ex, order, dispatched, report>>

\* the fields of SandboxManager and the state of its run_command calls
managerVars == <<sandbox, created_at, command_count, now, sent, lastLease,
                 pc, cmd, sb, chk, log, got, incs, repairs, exc, res>>

vars == <<sandbox, created_at, command_count, now, nCreated, sent, lastLease,
          pc, cmd, sb, chk, log, got, incs, repairs, exc, res,
          _sandbox, rpc, http_code, ex, order, dispatched, report,
          api_key, _manager, requests,
          vulns_json, apc, outcome, refs, tree, pulls, last,
          torn, runs, nRuns, scan, sse_subscribers, streams, yielded, nUpd,
          tools, ipc, issued, tools_before, missing_critical, install_result,
          enabled, _active_session, _session_creation_time, bpc, attempt, made, errors,
          session, nSessions>>

\* the analysis phase and the GitHub repository
collabVars == <<vulns_json, apc, outcome, refs, tree, pulls, last>>

\* the dashboard backend: the table of runs and the event streams
dashboardVars == <<runs, nRuns, scan, sse_subscribers, streams, yielded, nUpd>>

\* install_security_tools seen from inside the sandbox
provisionVars == <<tools, ipc, issued, tools_before, missing_critical, install_result>>

\* the Browserbase client
browserVars == <<enabled, _active_session, _session_creation_time, bpc, attempt, made,
                 errors, session, nSessions>>

\* what lies beside the analysis and the repository
sideVars == <<torn, dashboardVars, provisionVars, browserVars>>

\* everything outside the sandbox manager, the exec client and the credentials
serviceVars == <<collabVars, sideVars>>

\* the branch names create_pr is called with
Branches == {"autoctf-patch-1", "autoctf-patch-2"}
\* the paths of the files dict, in the order of the dict
Paths == <<"login.php", "SECURITY.md">>
PathSet == {Paths[k] : k \in 1..Len(Paths)}
\* the base branch: login.php is there, SECURITY.md is not
BaseTree == [p \in PathSet |-> IF p = "login.php" THEN "v0" ELSE "absent"]
\* no analysis outcome yet
NoOutcome == [who |-> "", cause |-> "none", error |-> FALSE, findings |-> 0]
\* no create_pr call yet
NoCall == [kind |-> "none", branch |-> "", base |-> "", fault |-> FALSE,
           had_branch |-> FALSE, had_pr |-> FALSE]

\* the ids of the table pentest_runs
MaxRuns == 1
RunIds == 1..MaxRuns
\* the connections to /api/runs/{run_id}/stream
Streams == {1, 2}
\* a connection that is not open
NoStream == [pc |-> "off", run |-> None, i |-> 0]

\* install_security_tools has given its caller nothing yet
NoInstall == [kind |-> "none", value |-> None]

\* the environment of the process and what was done with it
configVars == <<api_key, _manager, requests>>

\* values of E2B_API_KEY: not set, empty, the placeholder of the .env template,
\* a key the E2B service accepts
KeyValues == {"<unset>", "", "your_e2b_api_key_here", "e2b_live_key"}

\* the coroutines run_recon has in flight: one awaited directly (slot 1), or the
\* three of the full batch in the order they are appended to tasks
Slots == 1..3
\* nothing returned yet
NoOut == [kind |-> "none", text |-> <<>>]
\* a slot without a coroutine
NoExec == [pc |-> "idle", att |-> 0, sb |-> None, out |-> NoOut]

NoChk == [why |-> "none", sandbox |-> None, created |-> 0, overAge |-> FALSE]
NoRes == [kind |-> "none", stdout |-> "", stderr |-> "", exit_code |-> 0,
          success |-> FALSE, output |-> <<>>]

InitState ==
    /\ sandbox = None
    /\ created_at = None
    /\ command_count = 0
    /\ now = 1
    /\ nCreated = 0
    /\ sent = 0
    /\ lastLease = None
    /\ pc = [t \in Tasks |-> "idle"]
    /\ cmd = [t \in Tasks |-> ""]
    /\ sb = [t \in Tasks |-> None]
    /\ chk = [t \in Tasks |-> NoChk]
    /\ log = [t \in Tasks |-> <<>>]
    /\ got = [t \in Tasks |-> <<>>]
    /\ incs = [t \in Tasks |-> 0]
    /\ repairs = [t \in Tasks |-> 0]
    /\ exc = [t \in Tasks |-> ""]
    /\ res = [t \in Tasks |-> NoRes]
    /\ _sandbox = None
    /\ rpc = "idle"
    /\ http_code = NoOut
    /\ ex = [i \in Slots |-> NoExec]
    /\ order = <<>>
    /\ dispatched = {}
    /\ report = <<>>
    /\ requests = {}
    /\ vulns_json = <<>>
    /\ apc = "idle"
    /\ outcome = NoOutcome
    /\ refs = {}
    /\ tree = [b \in Branches |-> BaseTree]
    /\ pulls = {}
    /\ last = NoCall
    /\ torn = {}
    /\ runs = [r \in RunIds |-> "absent"]
    /\ nRuns = 0
    /\ scan = None
    /\ sse_subscribers = [r \in RunIds |-> <<>>]
    /\ streams = [s \in Streams |-> NoStream]
    /\ yielded = {}
    /\ nUpd = 0
    /\ tools = {}
    /\ ipc = "idle"
    /\ issued = <<>>
    /\ tools_before = {}
    /\ missing_critical = {}
    /\ install_result = NoInstall
    /\ _active_session = None
    /\ _session_creation_time = None
    /\ bpc = "idle"
    /\ attempt = 0
    /\ made = 0
    /\ errors = <<>>
    /\ session = None
    /\ nSessions = 0

\* a process with a valid key whose SandboxManager is built
Init ==
    /\ InitState
    /\ api_key = "e2b_live_key"
    /\ _manager = 1
    /\ enabled = TRUE

(* --------------------- SandboxManager, pure parts ---------------------- *)
\* Python truthiness of self.created_at (None and 0 are falsy)
Truthy(x) == x # None /\ x # 0

\* get_or_create_sandbox, the three tests that set should_recreate
NoSandbox == sandbox = None

ExpiredLate == Truthy(created_at) /\ (now - created_at > max_sandbox_age + 1)
Expired == Truthy(created_at) /\ (now - created_at > max_sandbox_age)

LimitReachedEarly == command_count + 1 >= max_commands
LimitReachedLate == command_count > max_commands
LimitReached == command_count >= max_commands

ShouldRecreate == NoSandbox \/ Expired \/ LimitReached

\* the branch of the if/elif chain the lease check takes
LeaseBranch ==
    IF NoSandbox THEN "absent"
    ELSE IF Expired THEN "expired"
    ELSE IF LimitReached THEN "limit"
    ELSE "reuse"

\* close_sandbox: the fields after the call (cleanupRaises: the try block raised)
ClosedCreatedAt(cleanupRaises) ==
    IF sandbox = None \/ cleanupRaises THEN created_at ELSE None
ClosedCount(cleanupRaises) ==
    IF sandbox = None \/ cleanupRaises THEN command_count ELSE 0

\* "x or ''" on a string
OrEmpty(x) == IF x = "" THEN "" ELSE x

\* run_command, the dict returned after a dispatch that produced a result
CommandResult(code, so, se) ==
    [kind |-> "returned", stdout |-> OrEmpty(so), stderr |-> OrEmpty(se),
     exit_code |-> code, success |-> (code = 0),
     output |-> <<OrEmpty(so), "\n", OrEmpty(se)>>]

\* str(e) of the exceptions that reach run_command's handlers
ErrorText(e) ==
    CASE e = "CreateFailed" -> "Command execution failed: Failed to create E2B sandbox"
      [] e = "NoSandboxForInstall" ->
             "Command execution failed: No sandbox available for tool installation"
      [] e = "ToolUnavailable" ->
             "Command execution failed: Tool not available even after reinstall"
      [] e = "AttributeError" ->
             "Command execution failed: 'NoneType' object has no attribute 'commands'"
      [] OTHER -> "Command execution failed: transport error"

\* run_command, "except asyncio.TimeoutError"
TimeoutResultAsExit ==
    [kind |-> "returned", stdout |-> "", stderr |-> "Timeout: Command exceeded limit",
     exit_code |-> 124, success |-> FALSE, output |-> <<"Command timed out">>]
TimeoutResult ==
    [kind |-> "returned", stdout |-> "", stderr |-> "Timeout: Command exceeded limit",
     exit_code |-> -1, success |-> FALSE, output |-> <<"Command timed out">>]

\* run_command, "except Exception"
FailureResultReraise(e) ==
    [kind |-> IF e = "CreateFailed" THEN "raised" ELSE "returned",
     stdout |-> "", stderr |-> ErrorText(e),
     exit_code |-> -1, success |-> FALSE, output |-> <<ErrorText(e)>>]
FailureResult(e) ==
    [kind |-> "returned", stdout |-> "", stderr |-> ErrorText(e),
     exit_code |-> -1, success |-> FALSE, output |-> <<ErrorText(e)>>]

\* run_command, the two except clauses in order
ExceptHandler(e) ==
    IF e = "TimeoutError" THEN TimeoutResult ELSE FailureResult(e)

\* "result.exit_code == 127" after the first dispatch
NeedsRepairOnAnyFailure(code) == code # 0
NeedsRepair(code) == code = 127

\* "result.exit_code == 127" after the retry
RetryGivesUpNever(code) == FALSE
RetryGivesUp(code) == code = 127

\* what "self.command_count += 1" adds
CountStep == 1

(* ------------------------------ actions -------------------------------- *)
\* run_command leaves its try block by exception e: a handler builds the result
Raise(t, e) ==
    /\ exc' = [exc EXCEPT ![t] = e]
    /\ res' = [res EXCEPT ![t] = ExceptHandler(e)]
    /\ pc' = [pc EXCEPT ![t] = "done"]
    /\ chk' = [chk EXCEPT ![t] = NoChk]

\* run_command returns the dict built from the remote's result
ReturnResult(t, code, so, se) ==
    /\ res' = [res EXCEPT ![t] = CommandResult(code, so, se)]
    /\ pc' = [pc EXCEPT ![t] = "done"]
    /\ chk' = [chk EXCEPT ![t] = NoChk]
    /\ exc' = exc

\* run_command with the handle get_or_create_sandbox returned: the command is
\* counted and dispatched to it, no await lies in between
FirstDispatch(t, c) ==
    /\ sb' = [sb EXCEPT ![t] = sandbox]
    /\ lastLease' = sandbox
    /\ command_count' = command_count + CountStep
    /\ incs' = [incs EXCEPT ![t] = @ + 1]
    /\ log' = [log EXCEPT ![t] = Append(@, <<sandbox, c>>)]
    /\ sent' = sent + 1
    /\ pc' = [pc EXCEPT ![t] = "running"]

\* run_command whose close_sandbox keeps the sandbox when its cleanup raises
CallCloseKeeps(t, c, cleanupRaises) ==
    /\ pc[t] = "idle"
    /\ cmd' = [cmd EXCEPT ![t] = c]
    /\ chk' = [chk EXCEPT ![t] =
                 [why |-> LeaseBranch, sandbox |-> sandbox, created |-> nCreated,
                  overAge |-> (sandbox # None /\ created_at # None
                               /\ now - created_at > max_sandbox_age)]]
    /\ IF ShouldRecreate
       THEN /\ sandbox' = (IF cleanupRaises THEN sandbox ELSE None)
            /\ created_at' = ClosedCreatedAt(cleanupRaises)
            /\ command_count' = ClosedCount(cleanupRaises)
            /\ sent' = 0
            /\ pc' = [pc EXCEPT ![t] = "creating"]
            /\ UNCHANGED <<sb, incs, log, lastLease>>
       ELSE /\ FirstDispatch(t, c)
            /\ UNCHANGED <<sandbox, created_at>>
    /\ UNCHANGED <<now, nCreated, got, repairs, exc, res>>

\* run_command(command) up to its first await: the lease check, then either the
\* reuse path (dispatch) or close_sandbox and the start of AsyncSandbox.create
Call(t, c, cleanupRaises) ==
    /\ pc[t] = "idle"
    /\ cmd' = [cmd EXCEPT ![t] = c]
    /\ chk' = [chk EXCEPT ![t] =
                 [why |-> LeaseBranch, sandbox |-> sandbox, created |-> nCreated,
                  overAge |-> (sandbox # None /\ created_at # None
                               /\ now - created_at > max_sandbox_age)]]
    /\ IF ShouldRecreate
       THEN /\ sandbox' = None
            /\ created_at' = ClosedCreatedAt(cleanupRaises)
            /\ command_count' = ClosedCount(cleanupRaises)
            /\ sent' = 0
            /\ pc' = [pc EXCEPT ![t] = "creating"]
            /\ UNCHANGED <<sb, incs, log, lastLease>>
       ELSE /\ FirstDispatch(t, c)
            /\ UNCHANGED <<sandbox, created_at>>
    /\ UNCHANGED <<now, nCreated, got, repairs, exc, res>>

\* create_sandbox whose except clause swallows the error instead of raising
CreateDoneSwallowed(t, ok) ==
    /\ pc[t] = "creating"
    /\ IF ok
       THEN /\ nCreated < MaxSandboxes
            /\ nCreated' = nCreated + 1
            /\ sandbox' = nCreated + 1
            /\ created_at' = now
            /\ command_count' = 0
            /\ sent' = 0
       ELSE UNCHANGED <<nCreated, sandbox, created_at, command_count, sent>>
    /\ pc' = [pc EXCEPT ![t] = "inst_update"]
    /\ UNCHANGED <<chk, exc, res, now, lastLease, cmd, sb, log, got, incs, repairs>>

\* create_sandbox after "await AsyncSandbox.create": the fields are set and
\* install_security_tools starts its first remote command, or the RuntimeError
\* reaches run_command's handler
CreateDone(t, ok) ==
    /\ pc[t] = "creating"
    /\ IF ok
       THEN /\ nCreated < MaxSandboxes
            /\ nCreated' = nCreated + 1
            /\ sandbox' = nCreated + 1
            /\ created_at' = now
            /\ command_count' = 0
            /\ sent' = 0
            /\ pc' = [pc EXCEPT ![t] = "inst_update"]
            /\ UNCHANGED <<chk, exc, res>>
       ELSE /\ Raise(t, "CreateFailed")
            /\ UNCHANGED <<nCreated, sandbox, created_at, command_count, sent>>
    /\ UNCHANGED <<now, lastLease, cmd, sb, log, got, incs, repairs>>

\* get_or_create_sandbox returns self.sandbox after install_security_tools
LeaseReturn(t) ==
    IF sandbox = None
    THEN /\ command_count' = command_count + CountStep
         /\ incs' = [incs EXCEPT ![t] = @ + 1]
         /\ Raise(t, "AttributeError")
         /\ lastLease' = sandbox
         /\ UNCHANGED <<sent, sb, log>>
    ELSE /\ FirstDispatch(t, cmd[t])
         /\ UNCHANGED <<chk, exc, res>>

\* the retry "await sandbox.commands.run(command)" on the local variable sandbox
RetryDispatchCounted(t) ==
    /\ log' = [log EXCEPT ![t] = Append(@, <<sb[t], cmd[t]>>)]
    /\ pc' = [pc EXCEPT ![t] = "retrying"]
    /\ command_count' = command_count + CountStep
    /\ incs' = [incs EXCEPT ![t] = @ + 1]
    /\ UNCHANGED <<sent, lastLease, sb, chk, exc, res>>
RetryDispatch(t) ==
    /\ log' = [log EXCEPT ![t] = Append(@, <<sb[t], cmd[t]>>)]
    /\ pc' = [pc EXCEPT ![t] = "retrying"]
    /\ UNCHANGED <<command_count, sent, lastLease, sb, chk, incs, exc, res>>

LeasePcs == {"inst_update", "inst_install", "inst_verify"}
RepairPcs == {"rep_update", "rep_install", "rep_verify"}

\* the remote command install_security_tools runs after the one at pc
NextInstall(p) ==
    CASE p = "inst_update" -> "inst_install"
      [] p = "inst_install" -> "inst_verify"
      [] p = "rep_update" -> "rep_install"
      [] p = "rep_install" -> "rep_verify"
      [] OTHER -> "end"

\* one remote command of install_security_tools (update, install, verify) ends;
\* every exception is swallowed by the function's except clauses, after which,
\* or after the verification, the function returns: to get_or_create_sandbox,
\* or to run_command's repair
InstallStep(t, ok) ==
    /\ pc[t] \in LeasePcs \cup RepairPcs
    /\ IF ok /\ NextInstall(pc[t]) # "end" /\ sandbox # None
       THEN /\ pc' = [pc EXCEPT ![t] = NextInstall(pc[t])]
            /\ UNCHANGED <<command_count, sent, lastLease, sb, chk, log, incs, exc, res>>
       ELSE IF pc[t] \in RepairPcs THEN RetryDispatch(t) ELSE LeaseReturn(t)
    /\ UNCHANGED <<sandbox, created_at, now, nCreated, cmd, got, repairs>>

\* what the remote call gave: a result, or the exception e
Returned(code, so, se) == [outcome |-> "ok", code |-> code, stdout |-> so, stderr |-> se]
Raised(e) == [outcome |-> e, code |-> -1, stdout |-> "", stderr |-> ""]

\* run_command after the first "await sandbox.commands.run" gave a result
DispatchReturns(t, code, so, se) ==
    /\ pc[t] = "running"
    /\ got' = [got EXCEPT ![t] = Append(@, Returned(code, so, se))]
    /\ IF NeedsRepair(code)
       THEN /\ repairs' = [repairs EXCEPT ![t] = @ + 1]
            /\ IF sandbox = None
               THEN Raise(t, "NoSandboxForInstall")
               ELSE /\ pc' = [pc EXCEPT ![t] = "rep_update"]
                    /\ UNCHANGED <<chk, exc, res>>
       ELSE ReturnResult(t, code, so, se) /\ repairs' = repairs
    /\ UNCHANGED <<sandbox, created_at, command_count, now, nCreated, sent, lastLease,
                   cmd, sb, log, incs>>

\* the first "await sandbox.commands.run" raised e (a timeout, a transport error)
DispatchRaises(t, e) ==
    /\ pc[t] = "running"
    /\ got' = [got EXCEPT ![t] = Append(@, Raised(e))]
    /\ Raise(t, e)
    /\ UNCHANGED <<sandbox, created_at, command_count, now, nCreated, sent, lastLease,
                   cmd, sb, log, incs, repairs>>

\* run_command after the retry's "await sandbox.commands.run" gave a result
RetryReturns(t, code, so, se) ==
    /\ pc[t] = "retrying"
    /\ got' = [got EXCEPT ![t] = Append(@, Returned(code, so, se))]
    /\ IF RetryGivesUp(code) THEN Raise(t, "ToolUnavailable")
       ELSE ReturnResult(t, code, so, se)
    /\ UNCHANGED <<sandbox, created_at, command_count, now, nCreated, sent, lastLease,
                   cmd, sb, log, incs, repairs>>

\* the retry's "await sandbox.commands.run" raised e
RetryRaises(t, e) ==
    /\ pc[t] = "retrying"
    /\ got' = [got EXCEPT ![t] = Append(@, Raised(e))]
    /\ Raise(t, e)
    /\ UNCHANGED <<sandbox, created_at, command_count, now, nCreated, sent, lastLease,
                   cmd, sb, log, incs, repairs>>

\* the caller has taken the result; the call's locals die and the task is free
\* for its next call
Return(t) ==
    /\ pc[t] = "done"
    /\ pc' = [pc EXCEPT ![t] = "idle"]
    /\ cmd' = [cmd EXCEPT ![t] = ""]
    /\ sb' = [sb EXCEPT ![t] = None]
    /\ log' = [log EXCEPT ![t] = <<>>]
    /\ got' = [got EXCEPT ![t] = <<>>]
    /\ incs' = [incs EXCEPT ![t] = 0]
    /\ repairs' = [repairs EXCEPT ![t] = 0]
    /\ exc' = [exc EXCEPT ![t] = ""]
    /\ res' = [res EXCEPT ![t] = NoRes]
    /\ UNCHANGED <<sandbox, created_at, command_count, now, nCreated, sent, lastLease, chk>>

\* close_sandbox called from outside run_command (cleanup())
Close(cleanupRaises) ==
    /\ sandbox # None
    /\ sandbox' = None
    /\ created_at' = ClosedCreatedAt(cleanupRaises)
    /\ command_count' = ClosedCount(cleanupRaises)
    /\ sent' = 0
    /\ UNCHANGED <<now, nCreated, lastLease, pc, cmd, sb, chk, log, got, incs, repairs, exc,
                   res>>

\* time passes
Tick ==
    /\ now < MaxTime
    /\ now' = now + 1
    /\ UNCHANGED <<sandbox, created_at, command_count, nCreated, sent, lastLease,
                   pc, cmd, sb, chk, log, got, incs, repairs, exc, res>>

\* every finished call has handed its result to its caller: a coroutine's return
\* value goes to the awaiting caller before anything else is looked at
Handed == \A t \in Tasks : pc[t] # "done"

\* the command each task runs when the tasks run side by side
CommandOf(t) == IF t = 1 THEN "nmap" ELSE "curl"

\* tasks interleave at every await
Next ==
    \/ \E t \in Tasks, cr \in BOOLEAN : Handed /\ Call(t, CommandOf(t), cr)
           /\ UNCHANGED <<reconVars, configVars, serviceVars>>
    \/ \E t \in Tasks, ok \in BOOLEAN : Handed /\ CreateDone(t, ok)
           /\ UNCHANGED <<reconVars, configVars, serviceVars>>
    \/ \E t \in Tasks, ok \in BOOLEAN : Handed /\ InstallStep(t, ok)
           /\ UNCHANGED <<reconVars, configVars, serviceVars>>
    \/ \E t \in Tasks, code \in ExitCodes, so \in Stdouts, se \in Stderrs :
           Handed /\ DispatchReturns(t, code, so, se)
               /\ UNCHANGED <<reconVars, configVars, serviceVars>>
    \/ \E t \in Tasks, e \in Raises : Handed /\ DispatchRaises(t, e)
           /\ UNCHANGED <<reconVars, configVars, serviceVars>>
    \/ \E t \in Tasks, code \in ExitCodes, so \in Stdouts, se \in Stderrs :
           Handed /\ RetryReturns(t, code, so, se)
               /\ UNCHANGED <<reconVars, configVars, serviceVars>>
    \/ \E t \in Tasks, e \in Raises : Handed /\ RetryRaises(t, e)
           /\ UNCHANGED <<reconVars, configVars, serviceVars>>
    \/ \E t \in Tasks : Return(t) /\ UNCHANGED <<reconVars, configVars, serviceVars>>
    \/ \E cr \in BOOLEAN : Handed /\ Close(cr) /\ UNCHANGED <<reconVars, configVars, serviceVars>>
    \/ Handed /\ Tick /\ UNCHANGED <<reconVars, configVars, serviceVars>>

Spec == Init /\ [][Next]_vars

\* no call is in flight
Quiet == \A t \in Tasks : pc[t] = "idle"

\* calls that do not overlap: each call ends before the next call starts
NextSeq ==
    \/ \E t \in Tasks, c \in Commands, cr \in BOOLEAN : Quiet /\ Call(t, c, cr)
           /\ UNCHANGED <<reconVars, configVars, serviceVars>>
    \/ \E t \in Tasks, ok \in BOOLEAN : CreateDone(t, ok)
           /\ UNCHANGED <<reconVars, configVars, serviceVars>>
    \/ \E t \in Tasks, ok \in BOOLEAN : InstallStep(t, ok)
           /\ UNCHANGED <<reconVars, configVars, serviceVars>>
    \/ \E t \in Tasks, code \in ExitCodes, so \in Stdouts, se \in Stderrs :
           DispatchReturns(t, code, so, se) /\ UNCHANGED <<reconVars, configVars, serviceVars>>
    \/ \E t \in Tasks, e \in Raises : DispatchRaises(t, e)
           /\ UNCHANGED <<reconVars, configVars, serviceVars>>
    \/ \E t \in Tasks, code \in ExitCodes, so \in Stdouts, se \in Stderrs :
           RetryReturns(t, code, so, se) /\ UNCHANGED <<reconVars, configVars, serviceVars>>
    \/ \E t \in Tasks, e \in Raises : RetryRaises(t, e)
           /\ UNCHANGED <<reconVars, configVars, serviceVars>>
    \/ \E t \in Tasks : Return(t) /\ UNCHANGED <<reconVars, configVars, serviceVars>>
    \/ \E cr \in BOOLEAN : Quiet /\ Close(cr) /\ UNCHANGED <<reconVars, configVars, serviceVars>>
    \/ Handed /\ Tick /\ UNCHANGED <<reconVars, configVars, serviceVars>>

SpecSeq == Init /\ [][NextSeq]_vars

(* ---------------- exec_client and run_recon, pure parts ----------------- *)
\* what run_recon is asked to look at: a live URL, a GitHub repository URL, a
\* URL with github.com in it that names no repository
TargetUrls == {"web", "github", "github_bad"}

\* the commands of the full batch, in the order they are appended to tasks
Scanners == {"nmap", "curl -I", "whatweb"}

\* what the probe's curl can print on stdout (-w "%{http_code}") and stderr
ProbeStdouts == {<<>>, <<" ">>, <<"0", "0", "0">>, <<"2", "0", "0">>}
ProbeStderrs == {<<>>, <<"e">>}

\* exec_command: result.stdout + "\n" + result.stderr
Output(so, se) == so \o <<"\n">> \o se

\* '"000" in http_code'
Contains000(s) ==
    \E i \in 1..(Len(s) - 2) : s[i] = "0" /\ s[i + 1] = "0" /\ s[i + 2] = "0"

\* 'not http_code.strip()'
Blank(s) == \A i \in 1..Len(s) : s[i] \in {" ", "\n"}

\* run_recon, the test on the probe's output
NotRespondingExact(code) == code = <<"0", "0", "0">> \/ code = <<>>
NotResponding(code) == Contains000(code) \/ Blank(code)

\* exec_command raised: RuntimeError("Command execution failed: ...")
ExecError == [kind |-> "exc", text |-> <<"Command execution failed">>]

\* an await that only notices a coroutine that returned
EndedByReturn(e) == e.pc = "ok"
\* the coroutine of a slot has ended, by return or by exception
Ended(e) == e.pc \in {"ok", "failed"}

\* get_sandbox up to its first await, entered by attempt att of exec_command:
\* the global sandbox is returned as it is, or AsyncSandbox.create is awaited
GetSandbox(att) ==
    IF _sandbox = None
    THEN [pc |-> "creating", att |-> att, sb |-> None, out |-> NoOut]
    ELSE [pc |-> "running", att |-> att, sb |-> _sandbox, out |-> NoOut]

\* the command the coroutine e sends when it reaches sandbox.commands.run
Sends(e, c) == IF e.pc = "running" THEN {c} ELSE {}

\* the command run_recon gives the coroutine of slot i
Command(i) ==
    CASE rpc = "probe" -> "probe"
      [] rpc = "light" -> "dns_whois"
      [] rpc = "gh_clone" -> "clone"
      [] rpc = "gh_docker" -> "check_docker"
      [] rpc = "gh_port" -> "port_detect"
      [] rpc = "gh_analysis" -> "analysis"
      [] rpc = "batch" /\ i = 1 -> "nmap"
      [] rpc = "batch" /\ i = 2 -> "curl -I"
      [] rpc = "batch" /\ i = 3 -> "whatweb"
      [] OTHER -> ""

\* what the remote can print on stdout for slot i's command
StdoutsOf(i) == IF rpc = "probe" THEN ProbeStdouts ELSE {<<Command(i)>>}
StderrsOf(i) == IF rpc = "probe" THEN ProbeStderrs ELSE {<<>>}

\* get_sandbox: the installation command after the one at p
NextSetup(p) ==
    CASE p = "inst_update" -> "inst_install"
      [] p = "inst_install" -> "inst_verify"
      [] OTHER -> "end"

SetupPcs == {"inst_update", "inst_install", "inst_verify"}

\* asyncio.gather: the results in the order of the awaitables given
GatheredAsCompleted == order
Gathered == <<1, 2, 3>>

\* valid_results: the results that are strings
ValidResults == SelectSeq(Gathered, LAMBDA i : ex[i].out.kind = "str")

\* "\n\n".join(valid_results)
RECURSIVE Join(_)
Join(slots) ==
    IF slots = <<>> THEN <<>>
    ELSE IF Len(slots) = 1 THEN ex[slots[1]].out.text
    ELSE ex[slots[1]].out.text \o <<"\n", "\n">> \o Join(Tail(slots))

GhPcs == {"gh_clone", "gh_docker", "gh_port", "gh_analysis"}

\* run_github_recon: the command after the one at p
NextGh(p) ==
    CASE p = "gh_clone" -> "gh_docker"
      [] p = "gh_docker" -> "gh_port"
      [] p = "gh_port" -> "gh_analysis"
      [] OTHER -> "end"

(* ------------------- exec_client and run_recon, actions ----------------- *)
\* the locals of a coroutine that has ended are gone
Failed == [pc |-> "failed", att |-> 0, sb |-> None, out |-> ExecError]
Returns(text) == [pc |-> "ok", att |-> 0, sb |-> None, out |-> [kind |-> "str", text |-> text]]

\* the coroutine of slot i ends as e; gather notes the order of completion
EndSlot(i, e) ==
    /\ ex' = [ex EXCEPT ![i] = e]
    /\ order' = IF rpc = "batch" THEN Append(order, i) ELSE order

\* run_recon(target_ip, target_url) up to its first await
RunRecon(url) ==
    /\ rpc = "idle"
    /\ IF url = "github_bad"
       THEN /\ rpc' = "returned"
            /\ report' = <<"Invalid GitHub URL">>
            /\ UNCHANGED <<ex, dispatched>>
       ELSE /\ rpc' = (IF url = "github" THEN "gh_clone" ELSE "probe")
            /\ ex' = [ex EXCEPT ![1] = GetSandbox(1)]
            /\ dispatched' = Sends(GetSandbox(1), IF url = "github" THEN "clone" ELSE "probe")
            /\ report' = (IF url = "github" THEN <<"AUTO-DEPLOYMENT & RECON INITIATED">> ELSE <<>>)
    /\ UNCHANGED <<_sandbox, http_code, order, nCreated>>

\* a coroutine that gather scheduled runs up to its first await
ExecStart(i) ==
    /\ ex[i].pc = "start"
    /\ ex' = [ex EXCEPT ![i] = GetSandbox(1)]
    /\ dispatched' = dispatched \cup Sends(GetSandbox(1), Command(i))
    /\ UNCHANGED <<_sandbox, rpc, http_code, order, report, nCreated>>

\* get_sandbox after "await AsyncSandbox.create": the global is set and the first
\* installation command starts, or the exception leaves exec_command
ExecCreateDone(i, ok) ==
    /\ ex[i].pc = "creating"
    /\ IF ok
       THEN /\ nCreated < MaxSandboxes
            /\ nCreated' = nCreated + 1
            /\ _sandbox' = nCreated + 1
            /\ ex' = [ex EXCEPT ![i].pc = "inst_update"]
            /\ order' = order
       ELSE /\ EndSlot(i, Failed)
            /\ UNCHANGED <<nCreated, _sandbox>>
    /\ UNCHANGED <<rpc, http_code, dispatched, report>>

\* one installation command of get_sandbox ends; an exception (also the one of
\* "_sandbox.commands" on None) is swallowed; then, or after the verification,
\* get_sandbox returns the global and exec_command sends its command to it
ExecSetupStep(i, ok) ==
    /\ ex[i].pc \in SetupPcs
    /\ IF ok /\ NextSetup(ex[i].pc) # "end" /\ _sandbox # None
       THEN /\ ex' = [ex EXCEPT ![i].pc = NextSetup(ex[i].pc)]
            /\ UNCHANGED <<order, dispatched>>
       ELSE IF _sandbox = None
            THEN EndSlot(i, Failed) /\ dispatched' = dispatched
            ELSE /\ ex' = [ex EXCEPT ![i].pc = "running", ![i].sb = _sandbox]
                 /\ dispatched' = dispatched \cup {Command(i)}
                 /\ order' = order
    /\ UNCHANGED <<_sandbox, rpc, http_code, report, nCreated>>

\* "await sandbox.commands.run(command)" gave a result: exit code 127 of the first
\* attempt drops the global sandbox and enters get_sandbox again, 127 of the
\* retry raises, any other exit code returns the output
ExecRunReturns(i, code, so, se) ==
    /\ ex[i].pc = "running"
    /\ IF code = 127 /\ ex[i].att = 1
       THEN /\ _sandbox' = None
            /\ ex' = [ex EXCEPT ![i] = [pc |-> "creating", att |-> 2, sb |-> None, out |-> NoOut]]
            /\ order' = order
       ELSE /\ EndSlot(i, IF code = 127 THEN Failed ELSE Returns(Output(so, se)))
            /\ _sandbox' = _sandbox
    /\ UNCHANGED <<rpc, http_code, dispatched, report, nCreated>>

\* "await sandbox.commands.run(command)" raised (its timeout, a transport error)
ExecRunRaises(i) ==
    /\ ex[i].pc = "running"
    /\ EndSlot(i, Failed)
    /\ UNCHANGED <<_sandbox, rpc, http_code, dispatched, report, nCreated>>

\* run_recon after the probe: the lightweight scan, or the full batch is handed
\* to asyncio.gather (has_ip: target_ip is set and does not start with "http")
ProbeDone(has_ip) ==
    /\ rpc = "probe"
    /\ Ended(ex[1])
    /\ http_code' = ex[1].out
    /\ order' = <<>>
    /\ IF ex[1].pc = "failed" \/ NotResponding(ex[1].out.text)
       THEN /\ rpc' = "light"
            /\ ex' = [ex EXCEPT ![1] = GetSandbox(1)]
            /\ dispatched' = dispatched \cup Sends(GetSandbox(1), "dns_whois")
       ELSE /\ rpc' = "batch"
            /\ ex' = [i \in Slots |->
                        IF i = 1 /\ ~has_ip THEN NoExec
                        ELSE [pc |-> "start", att |-> 0, sb |-> None, out |-> NoOut]]
            /\ dispatched' = dispatched
    /\ UNCHANGED <<_sandbox, report, nCreated>>

\* run_lightweight_recon after its exec_command
LightDone ==
    /\ rpc = "light"
    /\ Ended(ex[1])
    /\ report' = <<"Lightweight Reconnaissance">>
                 \o (IF ex[1].pc = "ok" THEN ex[1].out.text ELSE <<"Basic recon failed">>)
                 \o <<"Note">>
    /\ rpc' = "returned"
    /\ UNCHANGED <<_sandbox, http_code, ex, order, dispatched, nCreated>>

\* asyncio.gather without return_exceptions: the first exception ends the await
\* and run_recon's except clause returns the failure text
BatchDoneFailFast ==
    /\ rpc = "batch"
    /\ \/ \A i \in Slots : ex[i].pc = "idle" \/ Ended(ex[i])
       \/ \E i \in Slots : ex[i].pc = "failed"
    /\ report' = (IF \E i \in Slots : ex[i].pc = "failed" THEN <<"Reconnaissance failed">>
                  ELSE Join(ValidResults))
    /\ rpc' = "returned"
    /\ UNCHANGED <<_sandbox, http_code, ex, order, dispatched, nCreated>>

\* run_recon without the test "if valid_results": the join of no result, an
\* empty report
BatchDoneJoinsAlways ==
    /\ rpc = "batch"
    /\ \A i \in Slots : ex[i].pc = "idle" \/ Ended(ex[i])
    /\ report' = Join(ValidResults)
    /\ rpc' = "returned"
    /\ UNCHANGED <<_sandbox, http_code, ex, order, dispatched, nCreated>>

\* asyncio.gather(*tasks, return_exceptions=True) returns when every coroutine
\* has ended; the strings among the results are joined
BatchDone ==
    /\ rpc = "batch"
    /\ \A i \in Slots : ex[i].pc = "idle" \/ Ended(ex[i])
    /\ report' = (IF ValidResults = <<>> THEN <<"No reconnaissance data collected">>
                  ELSE Join(ValidResults))
    /\ rpc' = "returned"
    /\ UNCHANGED <<_sandbox, http_code, ex, order, dispatched, nCreated>>

\* run_github_recon after one of its exec_command calls: an exception ends the
\* phases (the one of the port detection is caught on its own), then the summary
GhStep ==
    /\ rpc \in GhPcs
    /\ Ended(ex[1])
    /\ IF ex[1].pc = "failed" /\ rpc # "gh_port"
       THEN /\ report' = report \o <<"DEPLOYMENT FAILED", "SUMMARY">>
            /\ rpc' = "returned"
            /\ UNCHANGED <<ex, dispatched>>
       ELSE IF NextGh(rpc) = "end"
            THEN /\ report' = report \o ex[1].out.text \o <<"SUMMARY">>
                 /\ rpc' = "returned"
                 /\ UNCHANGED <<ex, dispatched>>
            ELSE /\ report' = (IF rpc = "gh_port" THEN report ELSE report \o ex[1].out.text)
                 /\ rpc' = NextGh(rpc)
                 /\ ex' = [ex EXCEPT ![1] = GetSandbox(1)]
                 /\ dispatched' = dispatched \cup
                        Sends(GetSandbox(1),
                              CASE rpc = "gh_clone" -> "check_docker"
                                [] rpc = "gh_docker" -> "port_detect"
                                [] OTHER -> "analysis")
    /\ UNCHANGED <<_sandbox, http_code, order, nCreated>>

\* the caller has taken the report; the locals of the call are gone
ReconReturn ==
    /\ rpc = "returned"
    /\ rpc' = "idle"
    /\ http_code' = NoOut
    /\ ex' = [i \in Slots |-> NoExec]
    /\ order' = <<>>
    /\ dispatched' = {}
    /\ report' = <<>>
    /\ UNCHANGED <<_sandbox, nCreated>>

\* exec_client.close_sandbox: "await _sandbox.close()" asks for the teardown
\* (whatever it raises is passed over), then the global is dropped
ExecClose ==
    /\ rpc = "idle"
    /\ _sandbox # None
    /\ _sandbox' = None
    /\ torn' = torn \cup {_sandbox}
    /\ UNCHANGED <<rpc, http_code, ex, order, dispatched, report, nCreated>>

\* the steps that end an await of a run_recon call in progress
ReconProgress ==
    \/ \E i \in Slots : ExecStart(i)
    \/ \E i \in Slots, ok \in BOOLEAN : ExecCreateDone(i, ok)
    \/ \E i \in Slots, ok \in BOOLEAN : ExecSetupStep(i, ok)
    \/ \E i \in Slots, code \in ExitCodes : \E so \in StdoutsOf(i), se \in StderrsOf(i) :
           ExecRunReturns(i, code, so, se)
    \/ \E i \in Slots : ExecRunRaises(i)
    \/ \E has_ip \in BOOLEAN : ProbeDone(has_ip)
    \/ LightDone
    \/ BatchDone
    \/ GhStep
    \/ ReconReturn

NextRecon ==
    \/ \E url \in TargetUrls : RunRecon(url) /\ UNCHANGED <<managerVars, configVars, serviceVars>>
    \/ \E i \in Slots : ExecStart(i) /\ UNCHANGED <<managerVars, configVars, serviceVars>>
    \/ \E i \in Slots, ok \in BOOLEAN : ExecCreateDone(i, ok)
           /\ UNCHANGED <<managerVars, configVars, serviceVars>>
    \/ \E i \in Slots, ok \in BOOLEAN : ExecSetupStep(i, ok)
           /\ UNCHANGED <<managerVars, configVars, serviceVars>>
    \/ \E i \in Slots, code \in ExitCodes : \E so \in StdoutsOf(i), se \in StderrsOf(i) :
           ExecRunReturns(i, code, so, se) /\ UNCHANGED <<managerVars, configVars, serviceVars>>
    \/ \E i \in Slots : ExecRunRaises(i) /\ UNCHANGED <<managerVars, configVars, serviceVars>>
    \/ \E has_ip \in BOOLEAN : ProbeDone(has_ip)
           /\ UNCHANGED <<managerVars, configVars, serviceVars>>
    \/ LightDone /\ UNCHANGED <<managerVars, configVars, serviceVars>>
    \/ BatchDone /\ UNCHANGED <<managerVars, configVars, serviceVars>>
    \/ GhStep /\ UNCHANGED <<managerVars, configVars, serviceVars>>
    \/ ReconReturn /\ UNCHANGED <<managerVars, configVars, serviceVars>>
    \/ ExecClose /\ UNCHANGED <<managerVars, configVars, collabVars, dashboardVars,
                               provisionVars, browserVars>>

\* run_recon calls one after another on the exec client's global sandbox
SpecRecon == Init /\ [][NextRecon]_vars

\* every await of a call in progress ends: each remote call returns, raises or
\* runs into its timeout, and the event loop resumes the coroutine
SpecReconLive == SpecRecon /\ WF_vars(ReconProgress /\ UNCHANGED <<managerVars, configVars, serviceVars>>)

(* ------------------------------ credentials ----------------------------- *)
\* SandboxManager.__init__: "not self.api_key"
NoKey(k) == k = "<unset>" \/ k = ""

\* the E2B service creates sandboxes for this key; any other is refused
Accepted(k) == k = "e2b_live_key"

\* get_manager(): the first use builds the SandboxManager, whose __init__ raises
\* ValueError when the key is not set or empty and leaves _manager None
GetManager ==
    /\ _manager = None
    /\ rpc = "idle"
    /\ _manager' = (IF NoKey(api_key) THEN None ELSE 1)
    /\ UNCHANGED <<managerVars, reconVars, nCreated, api_key, requests, serviceVars>>

\* the process works through its SandboxManager
UsesManager == _manager # None /\ rpc = "idle"
\* the process works through the exec client
UsesExecClient == _manager = None /\ Quiet

\* the step starts an "await AsyncSandbox.create" in SandboxManager.create_sandbox
ManagerAsks == {"manager" : t \in {u \in Tasks : pc[u] # "creating" /\ pc'[u] = "creating"}}
\* the step starts an "await AsyncSandbox.create" in exec_client.get_sandbox, which
\* passes no key: the library takes E2B_API_KEY from the environment and, finding
\* none, raises without connecting
ExecAsks ==
    IF NoKey(api_key) THEN {}
    ELSE {"exec_client" : i \in {j \in Slots : ex[j].pc # "creating" /\ ex'[j].pc = "creating"}}

\* a process started with any value of E2B_API_KEY, nothing built yet
InitConfig ==
    /\ InitState
    /\ api_key \in KeyValues
    /\ _manager = None
    /\ enabled = TRUE

\* the process with its key: it uses the manager (calls that do not overlap) or
\* the exec client (run_recon); the service creates a sandbox only for a key it
\* accepts
NextConfig ==
    \/ GetManager
    \/ \E t \in Tasks, c \in Commands, cr \in BOOLEAN :
           /\ UsesManager /\ Quiet /\ Call(t, c, cr)
           /\ requests' = requests \cup ManagerAsks
           /\ UNCHANGED <<reconVars, api_key, _manager, serviceVars>>
    \/ \E t \in Tasks, ok \in BOOLEAN :
           (ok => Accepted(api_key)) /\ CreateDone(t, ok)
               /\ UNCHANGED <<reconVars, configVars, serviceVars>>
    \/ \E t \in Tasks, ok \in BOOLEAN : InstallStep(t, ok)
           /\ UNCHANGED <<reconVars, configVars, serviceVars>>
    \/ \E t \in Tasks, code \in ExitCodes, so \in Stdouts, se \in Stderrs :
           DispatchReturns(t, code, so, se) /\ UNCHANGED <<reconVars, configVars, serviceVars>>
    \/ \E t \in Tasks, e \in Raises : DispatchRaises(t, e)
           /\ UNCHANGED <<reconVars, configVars, serviceVars>>
    \/ \E t \in Tasks, code \in ExitCodes, so \in Stdouts, se \in Stderrs :
           RetryReturns(t, code, so, se) /\ UNCHANGED <<reconVars, configVars, serviceVars>>
    \/ \E t \in Tasks, e \in Raises : RetryRaises(t, e)
           /\ UNCHANGED <<reconVars, configVars, serviceVars>>
    \/ \E t \in Tasks : Return(t) /\ UNCHANGED <<reconVars, configVars, serviceVars>>
    \/ \E cr \in BOOLEAN : UsesManager /\ Quiet /\ Close(cr)
           /\ UNCHANGED <<reconVars, configVars, serviceVars>>
    \/ UsesManager /\ Handed /\ Tick /\ UNCHANGED <<reconVars, configVars, serviceVars>>
    \/ \E url \in TargetUrls :
           /\ UsesExecClient /\ RunRecon(url)
           /\ requests' = requests \cup ExecAsks
           /\ UNCHANGED <<managerVars, api_key, _manager, serviceVars>>
    \/ \E i \in Slots :
           /\ ExecStart(i)
           /\ requests' = requests \cup ExecAsks
           /\ UNCHANGED <<managerVars, api_key, _manager, serviceVars>>
    \/ \E i \in Slots, ok \in BOOLEAN :
           (ok => Accepted(api_key)) /\ ExecCreateDone(i, ok)
               /\ UNCHANGED <<managerVars, configVars, serviceVars>>
    \/ \E i \in Slots, ok \in BOOLEAN : ExecSetupStep(i, ok)
           /\ UNCHANGED <<managerVars, configVars, serviceVars>>
    \/ \E i \in Slots, code \in ExitCodes : \E so \in StdoutsOf(i), se \in StderrsOf(i) :
           /\ ExecRunReturns(i, code, so, se)
           /\ requests' = requests \cup ExecAsks
           /\ UNCHANGED <<managerVars, api_key, _manager, serviceVars>>
    \/ \E i \in Slots : ExecRunRaises(i) /\ UNCHANGED <<managerVars, configVars, serviceVars>>
    \/ \E has_ip \in BOOLEAN :
           /\ ProbeDone(has_ip)
           /\ requests' = requests \cup ExecAsks
           /\ UNCHANGED <<managerVars, api_key, _manager, serviceVars>>
    \/ LightDone /\ UNCHANGED <<managerVars, configVars, serviceVars>>
    \/ BatchDone /\ UNCHANGED <<managerVars, configVars, serviceVars>>
    \/ /\ GhStep
       /\ requests' = requests \cup ExecAsks
       /\ UNCHANGED <<managerVars, api_key, _manager, serviceVars>>
    \/ ReconReturn /\ UNCHANGED <<managerVars, configVars, serviceVars>>
    \/ UsesExecClient /\ ExecClose
           /\ UNCHANGED <<managerVars, configVars, collabVars, dashboardVars,
                          provisionVars, browserVars>>

SpecConfig == InitConfig /\ [][NextConfig]_vars

(* ------------------------ vulnerability analysis ------------------------ *)
\* the longest text of the model, in tokens
MaxOutputLen == 2

\* the pieces a text of the model is made of: the two code fences, JSON values
\* (objects with and without the key, an array), prose
Fences == {"<fence>json", "<fence>"}
JsonValues == {"{vulnerabilities: []}", "{vulnerabilities: [v]}", "{}", "[]"}
LlmTokens == Fences \cup JsonValues \cup {"prose"}

\* the texts detect_vulns can return
RECURSIVE Texts(_)
Texts(n) ==
    IF n = 0 THEN {<<>>}
    ELSE Texts(n - 1) \cup {Append(s, x) : s \in Texts(n - 1), x \in LlmTokens}

\* vulns_json.replace(<fence>json, "").replace(<fence>, ""), <fence> being the
\* three backquotes that open and close a block of code
StripFences(s) == SelectSeq(s, LAMBDA x : x \notin Fences)

\* json.loads: one JSON value and nothing else, or JSONDecodeError
JsonLoads(s) ==
    IF Len(s) = 1 /\ s[1] \in JsonValues
    THEN [ok |-> TRUE, value |-> s[1]]
    ELSE [ok |-> FALSE, value |-> "JSONDecodeError"]

\* vulns_data.get("vulnerabilities", []): on an object the list or the default,
\* on any other value AttributeError
GetVulnerabilities(v) ==
    CASE v = "{vulnerabilities: [v]}" -> [ok |-> TRUE, n |-> 1]
      [] v = "{vulnerabilities: []}" -> [ok |-> TRUE, n |-> 0]
      [] v = "{}" -> [ok |-> TRUE, n |-> 0]
      [] OTHER -> [ok |-> FALSE, n |-> 0]

Callers == {"autonomous_pentest", "internal_analyze_vulns"}

\* detect_vulns(recon) returned text to caller who
DetectVulns(who, text) ==
    /\ apc = "idle"
    /\ apc' = who
    /\ vulns_json' = text
    /\ outcome' = NoOutcome
    /\ UNCHANGED <<refs, tree, pulls, last>>

\* detect_vulns raised (no XAI_API_KEY, the request failed): the outer handler of
\* the caller ends the run, or answers 500
DetectRaises(who) ==
    /\ apc = "idle"
    /\ apc' = "done"
    /\ outcome' = [who |-> who, cause |-> "detect", error |-> TRUE, findings |-> 0]
    /\ UNCHANGED <<vulns_json, refs, tree, pulls, last>>

\* autonomous_pentest, phase 2: JSONDecodeError gives vulns = [], any other
\* exception reaches "except Exception" at the end of the function
AgentParse ==
    /\ apc = "autonomous_pentest"
    /\ apc' = "done"
    /\ LET parsed == JsonLoads(StripFences(vulns_json))
           vulns == GetVulnerabilities(parsed.value)
       IN outcome' =
              IF ~parsed.ok
              THEN [who |-> apc, cause |-> "parse", error |-> FALSE, findings |-> 0]
              ELSE IF ~vulns.ok
              THEN [who |-> apc, cause |-> "get", error |-> TRUE, findings |-> 0]
              ELSE [who |-> apc, cause |-> "none", error |-> FALSE, findings |-> vulns.n]
    /\ UNCHANGED <<vulns_json, refs, tree, pulls, last>>

\* internal_analyze_vulns: every exception of the try block, the one of
\* json.loads included, becomes HTTPException(500)
EndpointParse ==
    /\ apc = "internal_analyze_vulns"
    /\ apc' = "done"
    /\ LET parsed == JsonLoads(StripFences(vulns_json))
           vulns == GetVulnerabilities(parsed.value)
       IN outcome' =
              IF ~parsed.ok
              THEN [who |-> apc, cause |-> "parse", error |-> TRUE, findings |-> 0]
              ELSE IF ~vulns.ok
              THEN [who |-> apc, cause |-> "get", error |-> TRUE, findings |-> 0]
              ELSE [who |-> apc, cause |-> "none", error |-> FALSE, findings |-> vulns.n]
    /\ UNCHANGED <<vulns_json, refs, tree, pulls, last>>

\* the caller goes on with what the phase gave
AnalysisReturn ==
    /\ apc = "done"
    /\ apc' = "idle"
    /\ vulns_json' = <<>>
    /\ outcome' = NoOutcome
    /\ UNCHANGED <<refs, tree, pulls, last>>

NextAnalysis ==
    \/ \E who \in Callers, text \in Texts(MaxOutputLen) :
           DetectVulns(who, text) /\ UNCHANGED <<managerVars, reconVars, configVars, nCreated, sideVars>>
    \/ \E who \in Callers :
           DetectRaises(who) /\ UNCHANGED <<managerVars, reconVars, configVars, nCreated, sideVars>>
    \/ AgentParse /\ UNCHANGED <<managerVars, reconVars, configVars, nCreated, sideVars>>
    \/ EndpointParse /\ UNCHANGED <<managerVars, reconVars, configVars, nCreated, sideVars>>
    \/ AnalysisReturn /\ UNCHANGED <<managerVars, reconVars, configVars, nCreated, sideVars>>

SpecAnalysis == Init /\ [][NextAnalysis]_vars

(* ---------------------------- GitHubClient.create_pr -------------------- *)
\* the contents a patch gives a file
Contents == {"v1", "v2"}

\* the files dicts create_pr is called with: some of the paths, each with a content
FileDicts == UNION {[ps -> Contents] : ps \in (SUBSET PathSet) \ {{}}}

\* one file of the upload loop on branch tree t: get_contents reads the file on
\* the base branch; update_file passes the base file's sha, which GitHub accepts
\* when the file on the branch still is the base's (409 otherwise); a path not on
\* the base is created, which GitHub accepts when the branch has no such file
\* (422 otherwise)
PutFile(t, p, c) ==
    IF BaseTree[p] # "absent"
    THEN IF t[p] = BaseTree[p]
         THEN [ok |-> TRUE, tree |-> [t EXCEPT ![p] = c]]
         ELSE [ok |-> FALSE, tree |-> t]
    ELSE IF t[p] = "absent"
         THEN [ok |-> TRUE, tree |-> [t EXCEPT ![p] = c]]
         ELSE [ok |-> FALSE, tree |-> t]

\* "for path, content in files.items()": the first failure raises
RECURSIVE UploadAll(_, _, _)
UploadAll(t, files, ps) ==
    IF ps = <<>> THEN [ok |-> TRUE, tree |-> t]
    ELSE IF Head(ps) \notin DOMAIN files THEN UploadAll(t, files, Tail(ps))
    ELSE LET r == PutFile(t, Head(ps), files[Head(ps)])
         IN IF r.ok THEN UploadAll(r.tree, files, Tail(ps)) ELSE r

\* create_pr(title, body, branch, files) on a repository whose base branch is
\* base_name; fault: create_git_ref fails with a status other than 422
CreatePr(branch, files, base_name, fault) ==
    LET up == UploadAll(tree[branch], files, Paths)
        call == [kind |-> "error", branch |-> branch, base |-> base_name, fault |-> fault,
                 had_branch |-> branch \in refs, had_pr |-> branch \in pulls]
    IN IF fault
       THEN /\ last' = call
            /\ UNCHANGED <<refs, tree, pulls>>
       ELSE /\ refs' = refs \cup {branch}
            /\ tree' = [tree EXCEPT ![branch] = up.tree]
            /\ IF up.ok
               THEN /\ pulls' = pulls \cup {branch}
                    /\ last' = [call EXCEPT !.kind = "url"]
               ELSE /\ pulls' = pulls
                    /\ last' = call

\* somebody else creates the branch from the base
ExternalBranch(b) ==
    /\ b \notin refs
    /\ refs' = refs \cup {b}
    /\ UNCHANGED <<tree, pulls, last>>

\* somebody else commits to the branch and opens its pull request
ExternalPr(b, p, c) ==
    /\ b \in refs
    /\ b \notin pulls
    /\ tree' = [tree EXCEPT ![b][p] = c]
    /\ pulls' = pulls \cup {b}
    /\ UNCHANGED <<refs, last>>

\* the pull request is closed and the branch deleted
ExternalDelete(b) ==
    /\ b \in refs
    /\ refs' = refs \ {b}
    /\ pulls' = pulls \ {b}
    /\ tree' = [tree EXCEPT ![b] = BaseTree]
    /\ UNCHANGED last

NextGitHub ==
    \/ \E b \in Branches, files \in FileDicts, base \in {"master", "main"}, fault \in BOOLEAN :
           /\ CreatePr(b, files, base, fault)
           /\ UNCHANGED <<vulns_json, apc, outcome>>
           /\ UNCHANGED <<managerVars, reconVars, configVars, nCreated, sideVars>>
    \/ \E b \in Branches :
           /\ ExternalBranch(b)
           /\ UNCHANGED <<vulns_json, apc, outcome>>
           /\ UNCHANGED <<managerVars, reconVars, configVars, nCreated, sideVars>>
    \/ \E b \in Branches, p \in PathSet, c \in Contents :
           /\ ExternalPr(b, p, c)
           /\ UNCHANGED <<vulns_json, apc, outcome>>
           /\ UNCHANGED <<managerVars, reconVars, configVars, nCreated, sideVars>>
    \/ \E b \in Branches :
           /\ ExternalDelete(b)
           /\ UNCHANGED <<vulns_json, apc, outcome>>
           /\ UNCHANGED <<managerVars, reconVars, configVars, nCreated, sideVars>>

SpecGitHub == Init /\ [][NextGitHub]_vars

(* --------------------------- dashboard backend -------------------------- *)
\* the updates broadcast_progress may build before the model stops it
MaxUpdates == 3

\* the values the column comment of PentestRun.status lists
RunStatuses == {"queued", "running", "completed", "failed", "cancelled"}
\* request.get("status") of /internal/scan-progress: any of those, another
\* string, nothing
ProgressStatuses == RunStatuses \cup {"exploiting", "<null>"}
\* what Trigger.dev answers the event of start_scan: 200/201, another status, or
\* httpx.RequestError
TriggerAnswers == {"queued", "refused", "unreachable"}

\* db.query(PentestRun).filter(PentestRun.id == run_id).first() finds a row
Found(r) == runs[r] # "absent"

\* broadcast_progress(run_id, ...): the update is appended to the list of the run
BroadcastProgress(r) ==
    /\ nUpd < MaxUpdates
    /\ nUpd' = nUpd + 1
    /\ sse_subscribers' = [sse_subscribers EXCEPT ![r] = Append(@, nUpd + 1)]

\* start_scan up to "await client.post": the run is stored as queued
StartScan ==
    /\ scan = None
    /\ nRuns < MaxRuns
    /\ nRuns' = nRuns + 1
    /\ runs' = [runs EXCEPT ![nRuns + 1] = "queued"]
    /\ scan' = nRuns + 1
    /\ UNCHANGED <<sse_subscribers, streams, yielded, nUpd>>

\* start_scan after the answer: a status other than 200/201 and a RequestError
\* store the run as failed (the UPDATE finds no row when the run was deleted)
ScanPosted(answer) ==
    /\ scan # None
    /\ runs' = IF answer # "queued" /\ Found(scan) THEN [runs EXCEPT ![scan] = "failed"]
               ELSE runs
    /\ scan' = None
    /\ UNCHANGED <<nRuns, sse_subscribers, streams, yielded, nUpd>>

\* internal_run_recon after run_recon returned its report
InternalRunRecon(r) ==
    /\ runs' = IF Found(r) THEN [runs EXCEPT ![r] = "running"] ELSE runs
    /\ BroadcastProgress(r)
    /\ UNCHANGED <<nRuns, scan, streams, yielded>>

\* internal_exploit_vulns with nothing to exploit: the progress is broadcast
InternalExploitVulns(r) ==
    /\ BroadcastProgress(r)
    /\ UNCHANGED <<runs, nRuns, scan, streams, yielded>>

\* internal_scan_progress: the status of the request is stored as it is
InternalScanProgress(r, status) ==
    /\ runs' = IF Found(r) THEN [runs EXCEPT ![r] = status] ELSE runs
    /\ BroadcastProgress(r)
    /\ UNCHANGED <<nRuns, scan, streams, yielded>>

\* delete_run: a queued or running run is cancelled, any other is deleted
DeleteRun(r) ==
    /\ Found(r)
    /\ runs' = [runs EXCEPT ![r] = IF runs[r] \in {"queued", "running"} THEN "cancelled"
                                   ELSE "absent"]
    /\ UNCHANGED <<nRuns, scan, sse_subscribers, streams, yielded, nUpd>>

\* stream_run_updates(run_id): the generator runs to its first yield, the
\* "connected" message
StreamConnect(s, r) ==
    /\ streams[s].pc = "off"
    /\ streams' = [streams EXCEPT ![s] = [pc |-> "connected", run |-> r, i |-> 0]]
    /\ UNCHANGED <<runs, nRuns, scan, sse_subscribers, yielded, nUpd>>

\* the generator is resumed at the "connected" yield, or at the heartbeat yield
\* and then woken from asyncio.sleep: the top of "while True". The for loop
\* yields the first update of the list; with an empty list it ends at once, the
\* list is cleared and the heartbeat is yielded
StreamLoop(s) ==
    /\ streams[s].pc \in {"connected", "heartbeat"}
    /\ LET q == sse_subscribers[streams[s].run]
       IN IF q # <<>>
          THEN /\ streams' = [streams EXCEPT ![s].pc = "update", ![s].i = 1]
               /\ yielded' = yielded \cup {q[1]}
          ELSE /\ streams' = [streams EXCEPT ![s].pc = "heartbeat", ![s].i = 0]
               /\ yielded' = yielded
    /\ UNCHANGED <<runs, nRuns, scan, sse_subscribers, nUpd>>

\* the generator is resumed at the yield of an update: the list iterator gives the
\* element after the i it has given, if the list has one; if not the loop ends,
\* the list is cleared and the heartbeat is yielded
StreamNext(s) ==
    /\ streams[s].pc = "update"
    /\ LET r == streams[s].run
           q == sse_subscribers[r]
           i == streams[s].i
       IN IF i + 1 <= Len(q)
          THEN /\ streams' = [streams EXCEPT ![s].i = i + 1]
               /\ yielded' = yielded \cup {q[i + 1]}
               /\ sse_subscribers' = sse_subscribers
          ELSE /\ streams' = [streams EXCEPT ![s].pc = "heartbeat", ![s].i = 0]
               /\ sse_subscribers' = [sse_subscribers EXCEPT ![r] = <<>>]
               /\ yielded' = yielded
    /\ UNCHANGED <<runs, nRuns, scan, nUpd>>

\* the client goes away: CancelledError at the yield or the sleep ends the generator
StreamClose(s) ==
    /\ streams[s].pc # "off"
    /\ streams' = [streams EXCEPT ![s] = NoStream]
    /\ UNCHANGED <<runs, nRuns, scan, sse_subscribers, yielded, nUpd>>

\* what the requests to the backend leave alone
BackendFrame == <<managerVars, reconVars, configVars, nCreated, collabVars, torn,
                  provisionVars, browserVars>>

\* requests arrive in any order, with any run id; the streams of one run go
\* side by side and interleave with the requests at their yields
NextDashboard ==
    \/ StartScan /\ UNCHANGED BackendFrame
    \/ \E answer \in TriggerAnswers : ScanPosted(answer) /\ UNCHANGED BackendFrame
    \/ \E r \in RunIds : InternalRunRecon(r) /\ UNCHANGED BackendFrame
    \/ \E r \in RunIds : InternalExploitVulns(r) /\ UNCHANGED BackendFrame
    \/ \E r \in RunIds, status \in ProgressStatuses :
           InternalScanProgress(r, status) /\ UNCHANGED BackendFrame
    \/ \E r \in RunIds : DeleteRun(r) /\ UNCHANGED BackendFrame
    \/ \E s \in Streams, r \in RunIds : StreamConnect(s, r) /\ UNCHANGED BackendFrame
    \/ \E s \in Streams : StreamLoop(s) /\ UNCHANGED BackendFrame
    \/ \E s \in Streams : StreamNext(s) /\ UNCHANGED BackendFrame
    \/ \E s \in Streams : StreamClose(s) /\ UNCHANGED BackendFrame

SpecDashboard == Init /\ [][NextDashboard]_vars

(* ------------------ install_security_tools in the sandbox --------------- *)
\* the packages of the list tools that the verification looks for (of the seven
\* it checks: the three critical ones and one other)
VerifiedTools == {"nmap", "sqlmap", "curl", "nikto"}
\* critical_tools
CriticalTools == {"nmap", "sqlmap", "curl"}

\* how an awaited "self.sandbox.commands.run" of the function can end: exit code
\* 0, another exit code, an exception (asyncio.TimeoutError or any other)
RunEnds == {"zero", "nonzero", "raises"}

\* every path out of install_security_tools after its first line is a plain
\* "return": the except clauses print and fall off the end as well
InstallReturns == [kind |-> "returned", value |-> None]

\* install_security_tools up to its first await: without a sandbox RuntimeError,
\* else the package lists are updated
InstallCall ==
    /\ ipc = "idle"
    /\ tools_before' = tools
    /\ missing_critical' = {}
    /\ IF sandbox = None
       THEN /\ ipc' = "returned"
            /\ issued' = <<>>
            /\ install_result' = [kind |-> "raised", value |-> None]
       ELSE /\ ipc' = "update"
            /\ issued' = <<"update">>
            /\ install_result' = NoInstall
    /\ tools' = tools

\* the update command ended: a non-zero exit code is printed and passed over,
\* then the install command is run, whatever the sandbox holds already
UpdateDone(e) ==
    /\ ipc = "update"
    /\ IF e = "raises"
       THEN /\ ipc' = "returned"
            /\ install_result' = InstallReturns
            /\ issued' = issued
       ELSE /\ ipc' = "install"
            /\ issued' = Append(issued, "install")
            /\ install_result' = install_result
    /\ UNCHANGED <<tools, tools_before, missing_critical>>

\* the install command ended, having put the packages of installed into the sandbox (all of them when it exits with 0); then the
\* verification command is run
InstallDone(e, installed) ==
    /\ ipc = "install"
    /\ e = "zero" => installed = VerifiedTools
    /\ tools' = tools \cup installed
    /\ IF e = "raises"
       THEN /\ ipc' = "returned"
            /\ install_result' = InstallReturns
            /\ issued' = issued
       ELSE /\ ipc' = "verify"
            /\ issued' = Append(issued, "verify")
            /\ install_result' = install_result
    /\ UNCHANGED <<tools_before, missing_critical>>

\* the verification ended: its output marks the tools that are not there, the
\* critical ones among them are collected and printed, and the function returns
VerifyDone(e) ==
    /\ ipc = "verify"
    /\ missing_critical' = (IF e = "raises" THEN {} ELSE CriticalTools \ tools)
    /\ ipc' = "returned"
    /\ install_result' = InstallReturns
    /\ UNCHANGED <<tools, issued, tools_before>>

\* the caller goes on; the locals of the call are gone
InstallReturn ==
    /\ ipc = "returned"
    /\ ipc' = "idle"
    /\ issued' = <<>>
    /\ tools_before' = {}
    /\ missing_critical' = {}
    /\ install_result' = NoInstall
    /\ tools' = tools

\* close_sandbox() and create_sandbox() between two provisionings: a sandbox of
\* the base template again
Recreate(base) ==
    /\ ipc = "idle"
    /\ nCreated < MaxSandboxes
    /\ nCreated' = nCreated + 1
    /\ sandbox' = nCreated + 1
    /\ created_at' = now
    /\ command_count' = 0
    /\ sent' = 0
    /\ tools' = base
    /\ UNCHANGED <<now, lastLease, pc, cmd, sb, chk, log, got, incs, repairs, exc, res>>
    /\ UNCHANGED <<ipc, issued, tools_before, missing_critical, install_result>>

\* what a provisioning leaves alone
ProvisionFrame == <<reconVars, configVars, collabVars, torn, dashboardVars, browserVars>>

\* install_security_tools called again and again on the manager's sandbox
NextProvision ==
    \/ InstallCall /\ UNCHANGED <<managerVars, nCreated, ProvisionFrame>>
    \/ \E e \in RunEnds : UpdateDone(e) /\ UNCHANGED <<managerVars, nCreated, ProvisionFrame>>
    \/ \E e \in RunEnds, installed \in SUBSET VerifiedTools :
           InstallDone(e, installed) /\ UNCHANGED <<managerVars, nCreated, ProvisionFrame>>
    \/ \E e \in RunEnds : VerifyDone(e) /\ UNCHANGED <<managerVars, nCreated, ProvisionFrame>>
    \/ InstallReturn /\ UNCHANGED <<managerVars, nCreated, ProvisionFrame>>
    \/ \E base \in {{}, {"curl"}} : Recreate(base) /\ UNCHANGED ProvisionFrame

SpecProvision == Init /\ [][NextProvision]_vars

(* ------------------------ BrowserbaseClient.create_session ------------- *)
\* self.max_retries
max_retries == 3
\* SESSION_TIMEOUT (300 s in the source), scaled to clock ticks
SESSION_TIMEOUT == 2
\* sessions the Browserbase project can hand out
MaxSessions == 2

\* str(e) of what self.bb.sessions.create raises, as the pieces the tests look
\* for: a 429 with and without its status code in the text, a 401, a 500, a
\* connection error
ErrorTexts ==
    {<<"429", "Too Many Requests">>, <<"Too Many Requests">>, <<"401", "Unauthorized">>,
     <<"500">>, <<"Connection error">>}

\* x in error_str
Has(e, x) == \E k \in 1..Len(e) : e[k] = x

\* error_str.lower()
Lower(e) ==
    [k \in 1..Len(e) |->
        CASE e[k] = "Too Many Requests" -> "too many requests"
          [] e[k] = "Unauthorized" -> "unauthorized"
          [] e[k] = "Connection error" -> "connection error"
          [] OTHER -> e[k]]

\* '"429" in error_str or "Too Many Requests" in error_str.lower()'
IsRateLimit(e) == Has(e, "429") \/ Has(Lower(e), "Too Many Requests")

\* a test that takes no error for an authentication error
IsAuthNever(e) == FALSE
\* '"401" in error_str or "unauthorized" in error_str.lower()', reached when the
\* first test failed
IsAuth(e) == ~IsRateLimit(e) /\ (Has(e, "401") \/ Has(Lower(e), "unauthorized"))

\* create_session returns value: the locals of the loop are done with
SessionReturns(value) ==
    /\ bpc' = "returned"
    /\ session' = value

\* create_session(reuse) up to the first self.bb.sessions.create: a disabled
\* client and a session young enough return at once
CreateSession(reuse) ==
    /\ bpc = "idle"
    /\ errors' = <<>>
    /\ attempt' = 0
    /\ IF ~enabled
       THEN SessionReturns(None) /\ made' = 0
       ELSE IF /\ reuse
               /\ _active_session # None
               /\ Truthy(_session_creation_time)
               /\ now - _session_creation_time < SESSION_TIMEOUT
       THEN SessionReturns(_active_session) /\ made' = 0
       ELSE /\ bpc' = "creating"
            /\ made' = 1
            /\ session' = None
    /\ UNCHANGED <<enabled, _active_session, _session_creation_time, nSessions>>

\* self.bb.sessions.create returned: a session with an id is stored and returned,
\* anything else ends the call with None
SessionCreated(wellFormed) ==
    /\ bpc = "creating"
    /\ IF wellFormed
       THEN /\ nSessions < MaxSessions
            /\ nSessions' = nSessions + 1
            /\ _active_session' = nSessions + 1
            /\ _session_creation_time' = now
            /\ SessionReturns(nSessions + 1)
       ELSE /\ SessionReturns(None)
            /\ UNCHANGED <<nSessions, _active_session, _session_creation_time>>
    /\ UNCHANGED <<enabled, attempt, made, errors>>

\* self.bb.sessions.create raised e: an authentication error returns None; a
\* rate limit and any other error sleep and go round the loop while
\* attempt < max_retries - 1, and return None at the last attempt
SessionFails(e) ==
    /\ bpc = "creating"
    /\ errors' = Append(errors, e)
    /\ IF IsAuth(e) \/ ~(attempt < max_retries - 1)
       THEN /\ SessionReturns(None)
            /\ UNCHANGED <<attempt, made>>
       ELSE /\ attempt' = attempt + 1
            /\ made' = made + 1
            /\ UNCHANGED <<bpc, session>>
    /\ UNCHANGED <<enabled, _active_session, _session_creation_time, nSessions>>

\* the caller has taken the session
SessionReturn ==
    /\ bpc = "returned"
    /\ bpc' = "idle"
    /\ session' = None
    /\ attempt' = 0
    /\ made' = 0
    /\ errors' = <<>>
    /\ UNCHANGED <<enabled, _active_session, _session_creation_time, nSessions>>

\* close_session() on the active session: the globals are cleared
CloseSession ==
    /\ bpc = "idle"
    /\ enabled
    /\ _active_session # None
    /\ _active_session' = None
    /\ _session_creation_time' = None
    /\ UNCHANGED <<enabled, bpc, attempt, made, errors, session, nSessions>>

\* a process with or without BROWSERBASE_API_KEY and BROWSERBASE_PROJECT_ID:
\* BrowserbaseClient.__init__ sets enabled
InitBrowser ==
    /\ InitState
    /\ api_key = "e2b_live_key"
    /\ _manager = 1
    /\ enabled \in BOOLEAN

\* what the Browserbase client leaves alone
BrowserFrame == <<reconVars, configVars, collabVars, torn, dashboardVars, provisionVars,
                  nCreated>>

\* create_session is synchronous: one call at a time, time passes between calls
\* and while a request is out
NextBrowser ==
    \/ \E reuse \in BOOLEAN : CreateSession(reuse) /\ UNCHANGED <<managerVars, BrowserFrame>>
    \/ \E wellFormed \in BOOLEAN :
           SessionCreated(wellFormed) /\ UNCHANGED <<managerVars, BrowserFrame>>
    \/ \E e \in ErrorTexts : SessionFails(e) /\ UNCHANGED <<managerVars, BrowserFrame>>
    \/ SessionReturn /\ UNCHANGED <<managerVars, BrowserFrame>>
    \/ CloseSession /\ UNCHANGED <<managerVars, BrowserFrame>>
    \/ Tick /\ UNCHANGED <<nCreated, serviceVars, reconVars, configVars>>

SpecBrowser == InitBrowser /\ [][NextBrowser]_vars

(* ------------------------------- claims --------------------------------- *)
\* task t is inside the recreation of get_or_create_sandbox
InRecreation(t) == pc[t] = "creating" \/ pc[t] \in LeasePcs

\* the lease check of t's call found no sandbox, or a stale one
SawStale(t) == chk[t].why \in {"absent", "expired", "limit"}

\* C1: lease requests in progress together while the sandbox is absent or stale
\* lead to one creation: at most one recreation is in flight, no second sandbox
\* is created for them, and the callers hold the same handle.
C1_SingleFlight ==
    /\ Cardinality({t \in Tasks : InRecreation(t)}) <= 1
    /\ \A t, u \in Tasks :
          (t # u /\ SawStale(t) /\ SawStale(u) /\ chk[t].created = chk[u].created)
          => /\ nCreated <= chk[t].created + 1
             /\ (sb[t] # None /\ sb[u] # None => sb[t] = sb[u])

\* the sandbox exists and is neither over age nor at its command limit
IssuedFresh ==
    /\ sandbox # None
    /\ created_at # None
    /\ now - created_at <= max_sandbox_age
    /\ command_count < max_commands

\* C2: a call issued while the sandbox is within max_sandbox_age and below
\* max_commands gets the handle the previous call got, the current one, and
\* creates nothing.
C2_ReuseWhileFresh ==
    [][\A t \in Tasks :
          (pc[t] = "idle" /\ pc'[t] # "idle" /\ IssuedFresh)
          => /\ pc'[t] = "running"
             /\ sb'[t] = sandbox
             /\ sb'[t] = lastLease
             /\ sandbox' = sandbox
             /\ nCreated' = nCreated]_vars

C2_Witness ==
    \E t \in Tasks : pc[t] = "running" /\ chk[t].why = "reuse" /\ sent = 2 /\ sb[t] = 1

\* C3: the call after max_commands commands were dispatched to one sandbox
\* starts a recreation, and the lease of a call that recreated returns a handle
\* created after its check, other than the one it saw, with command_count 0.
C3_NewHandleAtLimit ==
    [][\A t \in Tasks :
          /\ (pc[t] = "idle" /\ pc'[t] # "idle" /\ sandbox # None /\ sent = max_commands)
             => (pc'[t] = "creating" /\ sandbox' = None)
          /\ (pc[t] \in LeasePcs /\ pc'[t] = "running")
             => /\ sb'[t] = sandbox
                /\ sb'[t] # chk[t].sandbox
                /\ sb'[t] > chk[t].created
                /\ command_count = 0]_vars

C3_Witness ==
    \E t \in Tasks :
        /\ pc[t] = "running"
        /\ chk[t].why = "limit"
        /\ sb[t] = 2
        /\ command_count = 1

\* C4: command_count never exceeds max_commands.
C4_CountWithinLimit == command_count <= max_commands

\* C5: no command of a call goes to the sandbox its lease check found over age:
\* every dispatch of such a call goes to a sandbox created after the check.
C5_NoDispatchToExpired ==
    \A t \in Tasks :
        chk[t].overAge
        => \A i \in 1..Len(log[t]) :
              /\ log[t][i][1] # chk[t].sandbox
              /\ log[t][i][1] > chk[t].created

C5_Witness ==
    \E t \in Tasks : chk[t].overAge /\ pc[t] = "running" /\ Len(log[t]) = 1

\* C6: a run_command call that dispatches its command adds exactly 1 to
\* command_count, at the first dispatch; the retry and the end of the call, with
\* whatever outcome, add nothing.
C6_CountedOnce ==
    [][\A t \in Tasks :
          /\ (Len(log[t]) = 0 /\ Len(log'[t]) = 1)
             => (command_count' = command_count + 1 /\ incs'[t] = 1)
          /\ (Len(log[t]) = 1 /\ Len(log'[t]) = 2)
             => (command_count' = command_count /\ incs'[t] = 1)
          /\ (pc[t] \in {"running", "retrying"} /\ pc'[t] # pc[t])
             => (command_count' = command_count /\ incs'[t] = 1)]_vars

C6_Witness ==
    \E t \in Tasks :
        /\ pc[t] = "done"
        /\ Len(log[t]) = 2
        /\ incs[t] = 1
        /\ got[t][2].outcome = "TimeoutError"

\* the exit code the first dispatch of t's call returned (-1: none)
first(t) == IF Len(got[t]) >= 1 THEN got[t][1].code ELSE -1
\* the exit code the retry of t's call returned (-1: none)
second(t) == IF Len(got[t]) >= 2 THEN got[t][2].code ELSE -1

\* C7: after a first dispatch that returned 127 the call makes one provisioning
\* call and one retry of the same command; a retry that returns 127 ends the call
\* with the ToolUnavailable failure; the command is never dispatched a third time.
C7_OneRepairOneRetry ==
    \A t \in Tasks :
        /\ Len(log[t]) <= 2
        /\ repairs[t] <= 1
        /\ first(t) = 127
           => /\ repairs[t] = 1
              /\ pc[t] \in RepairPcs \cup {"retrying", "done"}
              /\ pc[t] \in {"retrying", "done"}
                 => (Len(log[t]) = 2 /\ log[t][2] = log[t][1] /\ log[t][2][2] = cmd[t])
              /\ second(t) = 127
                 => /\ pc[t] = "done"
                    /\ res[t].kind = "returned"
                    /\ res[t].success = FALSE
                    /\ res[t].stderr = ErrorText("ToolUnavailable")

C7_Witness ==
    \E t \in Tasks : pc[t] = "done" /\ first(t) = 127 /\ second(t) = 127 /\ repairs[t] = 1

\* C8: a call whose dispatch timed out returns a result with success = false
\* and exit_code = -1, and has added exactly 1 to command_count.
C8_TimeoutIsResult ==
    \A t \in Tasks :
        (pc[t] = "done" /\ Len(got[t]) >= 1 /\ got[t][Len(got[t])].outcome = "TimeoutError")
        => /\ res[t].kind = "returned"
           /\ res[t].success = FALSE
           /\ res[t].exit_code = -1
           /\ incs[t] = 1

C8_Witness ==
    \E t \in Tasks :
        pc[t] = "done" /\ Len(got[t]) = 1 /\ got[t][1].outcome = "TimeoutError"

\* C9: an exit code other than 0 and 127 ends the call at once: the remote's
\* stdout, stderr and exit_code are returned with success = false, and the call
\* makes no provisioning call, no further dispatch and no change of sandbox.
C9_FailurePassesThrough ==
    [][\A t \in Tasks :
          (/\ pc[t] \in {"running", "retrying"}
           /\ Len(got'[t]) = Len(got[t]) + 1
           /\ got'[t][Len(got'[t])].outcome = "ok"
           /\ got'[t][Len(got'[t])].code \notin {0, 127})
          => /\ pc'[t] = "done"
             /\ res'[t].kind = "returned"
             /\ res'[t].stdout = got'[t][Len(got'[t])].stdout
             /\ res'[t].stderr = got'[t][Len(got'[t])].stderr
             /\ res'[t].exit_code = got'[t][Len(got'[t])].code
             /\ res'[t].success = FALSE
             /\ repairs'[t] = repairs[t]
             /\ log'[t] = log[t]
             /\ UNCHANGED <<sandbox, created_at, command_count, nCreated>>]_vars

C9_Witness ==
    \E t \in Tasks :
        /\ pc[t] = "done"
        /\ first(t) = 1
        /\ res[t].exit_code = 1
        /\ res[t].stdout = "out"
        /\ repairs[t] = 0

C11_TransientRetried ==
    \A t \in Tasks :
        (pc[t] = "done" /\ Len(got[t]) >= 1 /\ got[t][1].outcome = "TransportError")
        => Len(log[t]) > 1

\* C12: when the remote creation fails, get_or_create_sandbox raises instead of
\* returning a handle, self.sandbox is None afterwards, and the call has run no
\* provisioning command and dispatched nothing.
C12_CreateFailureFails ==
    [][\A t \in Tasks :
          (pc[t] = "creating" /\ pc'[t] # "creating" /\ nCreated' = nCreated)
          => /\ pc'[t] = "done"
             /\ exc'[t] = "CreateFailed"
             /\ res'[t].success = FALSE
             /\ sb'[t] = None
             /\ sandbox' = None
             /\ log'[t] = <<>>
             /\ incs'[t] = 0
             /\ repairs'[t] = 0]_vars

C12_Witness ==
    \E t \in Tasks :
        /\ pc[t] = "done"
        /\ exc[t] = "CreateFailed"
        /\ nCreated = 1
        /\ sandbox = None
        /\ Len(log[t]) = 0

\* C13: a caller receives the handle only after the provisioning of that handle
\* has run to its end: not from a lease whose provisioning stopped at its update
\* or install command, and not on the reuse path while the call that created
\* the current sandbox is still provisioning it.
C13_ProvisionedBeforeHandle ==
    [][\A t \in Tasks :
          (pc[t] # "running" /\ pc'[t] = "running")
          => /\ pc[t] \notin {"inst_update", "inst_install"}
             /\ \A u \in Tasks \ {t} :
                   ~(/\ pc[u] \in LeasePcs
                     /\ nCreated = chk[u].created + 1
                     /\ sandbox = nCreated)]_vars

\* the probe's verdict is "unreachable": it raised, or its output is blank or
\* holds "000"
ProbeUnreachable ==
    \/ http_code.kind = "exc"
    \/ http_code.kind = "str" /\ (Blank(http_code.text) \/ Contains000(http_code.text))

\* C14: after a probe that reports an unreachable target run_recon runs the
\* lightweight scan only: of all commands it sends just the probe and the DNS and
\* WHOIS lookup, never nmap, curl -I or whatweb, and it returns the lightweight
\* report.
C14_LightweightOnly ==
    ProbeUnreachable
    => /\ rpc \in {"light", "returned"}
       /\ dispatched \cap Scanners = {}
       /\ dispatched \subseteq {"probe", "dns_whois"}
       /\ \A i \in Slots : ex[i].pc # "start"
       /\ rpc = "returned" => report[1] = "Lightweight Reconnaissance"

C14_Witness ==
    /\ rpc = "returned"
    /\ http_code.kind = "str"
    /\ http_code.text = <<"0", "0", "0", "\n">>
    /\ "dns_whois" \in dispatched

\* the commands of the full batch as declared, by slot
Declared == <<"nmap", "curl -I", "whatweb">>

\* the output of slot i's command is part of the report
InReport(i) == \E k \in 1..Len(report) : report[k] = Declared[i]

\* run_recon has returned from the full batch
BatchReturned == rpc = "returned" /\ ex[2].pc # "idle"

\* C15: a full batch in which some commands fail and at least one succeeds
\* returns a report (run_recon does not raise or give the failure text), every
\* coroutine of the batch has run to its own end, and the report holds the
\* output of exactly the commands that succeeded.
C15_PartialFailure ==
    (BatchReturned /\ \E i \in Slots : ex[i].pc = "ok")
    => /\ \A i \in Slots : ex[i].pc \in {"idle", "ok", "failed"}
       /\ \A i \in Slots : InReport(i) <=> ex[i].pc = "ok"
       /\ \A k \in 1..Len(report) : report[k] \in {"nmap", "curl -I", "whatweb", "\n"}

C15_Witness ==
    /\ BatchReturned
    /\ ex[1].pc = "failed"
    /\ ex[2].pc = "ok"
    /\ ex[3].pc = "failed"
    /\ InReport(2)

\* where slot i's output stands in the report
Pos(i) == CHOOSE k \in 1..Len(report) : report[k] = Declared[i]

\* C16: in the report of a full batch the outputs stand in the order in which
\* the commands were declared, in whatever order their coroutines ended.
C16_DeclarationOrder ==
    BatchReturned
    => \A i, j \in Slots : (i < j /\ InReport(i) /\ InReport(j)) => Pos(i) < Pos(j)

C16_Witness ==
    /\ BatchReturned
    /\ order = <<3, 2, 1>>
    /\ \A i \in Slots : InReport(i)

\* C17: every run_recon call in progress returns.
C17_ReconReturns == (rpc \notin {"idle", "returned"}) ~> (rpc = "returned")

C17_Witness ==
    /\ BatchReturned
    /\ nCreated = 2
    /\ \E i \in Slots : ex[i].pc = "failed"

\* E2B_API_KEY is missing (not set, empty) or the placeholder
BadCredential == api_key \in {"<unset>", "", "your_e2b_api_key_here"}

\* C18: with a missing or placeholder E2B_API_KEY neither the manager nor the
\* exec client ever asks the service to create a sandbox.
C18_FailFast == BadCredential => requests = {}

\* the text detect_vulns returned is no JSON: it holds prose
HoldsProse == \E k \in 1..Len(vulns_json) : vulns_json[k] = "prose"

\* C19: a caller that got text that is not valid JSON from detect_vulns ends its
\* analysis phase with zero findings and without an error.
C19_InvalidJsonIsNoFindings ==
    (apc = "done" /\ outcome.cause # "detect" /\ HoldsProse)
    => (outcome.error = FALSE /\ outcome.findings = 0)

\* C20: a create_pr call that GitHub does not fail for another reason returns
\* the URL of the branch's pull request, whether or not the branch or its pull
\* request existed before: so does a second call with the same branch.
C20_RecoverableConflicts ==
    (last.kind # "none" /\ ~last.fault)
    => /\ last.kind = "url"
       /\ last.branch \in refs
       /\ last.branch \in pulls

\* C21: the status of every stored PentestRun is one of queued, running,
\* completed, failed, cancelled.
C21_StatusInEnum == \A r \in RunIds : Found(r) => runs[r] \in RunStatuses

\* the statuses at which a run has ended
TerminalStatuses == {"completed", "failed", "cancelled"}

\* C28: once a run has a terminal status no request gives it another status (the
\* run may still be deleted).
C28_TerminalIsFinal ==
    [][\A r \in RunIds :
          runs[r] \in TerminalStatuses => runs'[r] \in {runs[r], "absent"}]_vars

\* the updates in the list of run r
Queued(q) == {q[k] : k \in 1..Len(q)}

\* C29: no update leaves sse_subscribers[run_id] without having been yielded by
\* some stream of the run, however broadcasts and the streams of the run
\* interleave.
C29_NoUpdateLost ==
    [][\A r \in RunIds :
          Queued(sse_subscribers[r]) \ Queued(sse_subscribers'[r]) \subseteq yielded']_vars

\* C22: a provisioning whose verification finds a critical tool missing returns
\* without raising, and what it gives its caller tells the caller so: it is not
\* what a complete provisioning gives.
C22_DegradedFlag ==
    (ipc = "returned" /\ missing_critical # {})
    => (install_result.kind = "returned" /\ install_result.value # None)

\* C23: install_security_tools on a sandbox that has every tool runs the
\* verification only, no update and no install command, and leaves the tools as
\* they were.
C23_VerifyShortCircuits ==
    (ipc = "returned" /\ tools_before = VerifiedTools)
    => (issued = <<"verify">> /\ tools = tools_before)

\* C24: close_sandbox leaves self.sandbox None, whether it was called from
\* outside or by a recreation and whether or not its cleanup raised; the
\* run_command that follows starts a creation, and its lease returns a handle
\* created after the close, with command_count 0, before the one dispatch.
C24_CloseThenFresh ==
    [][/\ (pc' = pc /\ now' = now) => sandbox' = None
       /\ \A t \in Tasks :
             /\ pc'[t] = "creating" => sandbox' = None
             /\ (pc[t] = "idle" /\ pc'[t] # "idle" /\ sandbox = None)
                => pc'[t] = "creating"
             /\ (pc[t] \in LeasePcs /\ pc'[t] = "running" /\ chk[t].why = "absent")
                => /\ sandbox > chk[t].created
                   /\ command_count = 0
                   /\ log'[t] = <<<<sandbox, cmd[t]>>>>]_vars

C24_Witness ==
    \E t \in Tasks :
        /\ pc[t] = "running"
        /\ chk[t].why = "absent"
        /\ chk[t].created = 1
        /\ log[t] = <<<<2, cmd[t]>>>>
        /\ command_count = 1

\* C25: every sandbox ever created is the current one of the manager or of the
\* exec client, or its remote teardown has been requested: a recycling asks for
\* the teardown of the old sandbox before it creates the new one.
C25_TeardownOnRecycle ==
    \A h \in 1..nCreated : h = sandbox \/ h = _sandbox \/ h \in torn

\* C26: every dispatch of a run_command call goes to the sandbox that is current
\* when it is made, never to a handle the manager has closed meanwhile, and each
\* command of a call's repair provisioning runs on the handle of its first
\* dispatch.
C26_NoDispatchToClosed ==
    [][\A t \in Tasks :
          /\ Len(log'[t]) > Len(log[t]) => log'[t][Len(log'[t])][1] = sandbox
          /\ (pc[t] \in RepairPcs /\ pc'[t] # pc[t]) => sandbox = sb[t]]_vars

\* C27: a full batch in which every command failed still returns: run_recon
\* gives its caller the fixed report "No reconnaissance data collected".
C27_AllFailedIsDegraded ==
    (BatchReturned /\ \A i \in Slots : ex[i].pc # "ok")
    => report = <<"No reconnaissance data collected">>

C27_Witness ==
    /\ BatchReturned
    /\ \A i \in Slots : ex[i].pc = "failed"
    /\ report = <<"No reconnaissance data collected">>

\* what an error of sessions.create is: an authentication error (401), a rate
\* limit (429), anything else
Meaning(e) ==
    CASE e[1] = "401" -> "auth"
      [] e[1] \in {"429", "Too Many Requests"} -> "rate_limit"
      [] OTHER -> "other"

\* C30: a create_session call makes at most max_retries attempts and ends with a
\* session or None; an authentication error is the last attempt of its call and
\* gives None; after any other error the call goes on to a further attempt
\* until max_retries are made, and then gives None; the first attempt that
\* succeeds makes its session the active one and returns it.
C30_BoundedAttempts ==
    /\ made <= max_retries
    /\ made \in {Len(errors), Len(errors) + 1}
    /\ bpc = "creating" => made = Len(errors) + 1
    /\ bpc = "returned" => session \in {None} \cup 1..nSessions
    /\ \A k \in 1..Len(errors) :
          IF Meaning(errors[k]) = "auth"
          THEN k = Len(errors) /\ made = k /\ bpc = "returned" /\ session = None
          ELSE made > k \/ (k = max_retries /\ bpc = "returned" /\ session = None)
    /\ (bpc = "returned" /\ session # None /\ made > 0)
       => /\ made = Len(errors) + 1
          /\ _active_session = session
          /\ _session_creation_time # None

C30_Witness ==
    /\ bpc = "returned"
    /\ made = max_retries
    /\ Len(errors) = 2
    /\ Meaning(errors[1]) = "rate_limit"
    /\ Meaning(errors[2]) = "other"
    /\ session = 2
    /\ _active_session = 2

====
